---- MODULE Spec2Model ----
(***************************************************************************)
(* Model of the rally race simulation and settlement of rally_app.py: the  *)
(* "Start Race!" handler (lines 140-188), the ledger writes it issues      *)
(* through execute_command (lines 33-45) and snowflake_connection (lines   *)
(* 9-18), and the "Add Car" form (lines 118-136) that grows the snapshot.  *)
(*                                                                         *)
(* Numbers are exact rationals: the floating point of the source is        *)
(* modelled by the real arithmetic it approximates, and the IEEE special   *)
(* values (inf, nan) that numpy scalars produce on a zero divisor are kept *)
(* as separate kinds of time.                                              *)
(***************************************************************************)
EXTENDS Integers, Sequences, FiniteSets, TLC

VARIABLES
    budget,         \* TEAMS table: team_name -> budget
    cars_df,        \* the joined car snapshot, in row order
    pc,             \* where the Start Race handler is
    PRIZE,          \* line 146
    teams_in_race,  \* line 151
    race_results,   \* line 157, appended at line 168
    results_df,     \* line 175
    log,            \* what the handler did, in order: writes, messages, simulations
    startBudget,    \* budget when the race was started
    racesRun,       \* number of Start Race clicks so far
    clean,          \* every race so far was aborted or settled with every write applied
    sumK,           \* while clean: the distinct team counts of the settled races, summed
    entered         \* while clean: the teams that had an entrant in a settled race

vars == <<budget, cars_df, pc, PRIZE, teams_in_race, race_results, results_df,
          log, startBudget, racesRun, clean, sumK, entered>>

---------------------------------------------------------------------------
(* Bounds *)

MaxCars == 3
MaxRaces == 2

(* Program constants *)

FEE == 1000
MinEntrants == 2
InitialBudget == 1000
Distance == 100

Teams == {"A", "B", "C"}

(* The cars that can be registered: CARS joined with CAR_CATEGORIES and
   DRIVERS, the attributes the simulation reads. Horsepower and weight are in
   units of the smallest car; only their ratio enters the time. The category
   table is not written by the app, so zero and negative values are possible
   rows. Team A has two cars, the first of which is identical to team B's
   first; team B's second car has no weight and team C's cars have negative
   and zero horsepower. *)
Garage ==
    { [team |-> "A", hp |-> 2,  drivetrain |-> "RWD", weight |-> 1, skill |-> 50,  luck |-> 100],
      [team |-> "A", hp |-> 2,  drivetrain |-> "4WD", weight |-> 1, skill |-> 100, luck |-> 100],
      [team |-> "B", hp |-> 2,  drivetrain |-> "RWD", weight |-> 1, skill |-> 50,  luck |-> 100],
      [team |-> "B", hp |-> 2,  drivetrain |-> "RWD", weight |-> 0, skill |-> 50,  luck |-> 100],
      [team |-> "C", hp |-> -1, drivetrain |-> "RWD", weight |-> 1, skill |-> 50,  luck |-> 100],
      [team |-> "C", hp |-> 0,  drivetrain |-> "RWD", weight |-> 1, skill |-> 50,  luck |-> 100] }

ValidCar(car) == car.hp > 0 /\ car.weight > 0

---------------------------------------------------------------------------
(* Rational arithmetic *)

Abs(x) == IF x < 0 THEN -x ELSE x

RECURSIVE GCD(_, _)
GCD(a, b) == IF b = 0 THEN a ELSE GCD(b, a % b)

\* n/d in lowest terms with d > 0
Rat(n, d) ==
    LET g == GCD(Abs(n), Abs(d))
        s == IF d < 0 THEN -1 ELSE 1
    IN  [n |-> s * (n \div g), d |-> s * (d \div g)]

RMul(x, y) ==
    LET g1 == GCD(Abs(x.n), y.d)
        g2 == GCD(Abs(y.n), x.d)
        h1 == IF g1 = 0 THEN 1 ELSE g1
        h2 == IF g2 = 0 THEN 1 ELSE g2
    IN  Rat((x.n \div h1) * (y.n \div h2), (x.d \div h2) * (y.d \div h1))

RLess(x, y) == x.n * y.d < y.n * x.d

---------------------------------------------------------------------------
(* Performance model, lines 160-166 *)

\* line 161
drivetrain_bonus(car) == IF car.drivetrain = "4WD" THEN Rat(105, 100) ELSE Rat(100, 100)

\* line 162: 1 + ((skill - 50) / 50) * 0.1
skill_factor(car) == Rat(500 + (car.skill - 50), 500)

\* line 163: the values random.uniform can return, sampled at the two ends of
\* the interval, in thousandths
LuckDraws(car) == {1000 - car.luck, 1000 + car.luck}

luck_factor(draw) == Rat(draw, 1000)

Fin(r) == [k |-> "fin", n |-> r.n, d |-> r.d]
Inf == [k |-> "inf", n |-> 0, d |-> 1]
NaN == [k |-> "nan", n |-> 0, d |-> 1]
ZeroDivisionError == [k |-> "ZeroDivisionError", n |-> 0, d |-> 1]

\* The row values are Python numbers or numpy scalars depending on the pandas
\* version that builds the row: a zero divisor raises with the former and
\* yields inf or nan with the latter.
Builds == {"python", "numpy"}

\* lines 160-166 for one row
time_taken(car, draw, build) ==
    IF car.weight = 0
    THEN \* line 160 divides by zero
         IF build = "python" THEN ZeroDivisionError
         ELSE IF car.hp = 0 THEN NaN
         ELSE Fin(Rat(0, 1))  \* 100 / (+-inf)
    ELSE
         LET power_to_weight == Rat(car.hp, car.weight)
             performance_score ==
                 RMul(RMul(RMul(power_to_weight, drivetrain_bonus(car)),
                           skill_factor(car)), luck_factor(draw))
         IN  IF performance_score.n = 0
             THEN \* line 166 divides by zero
                  IF build = "python" THEN ZeroDivisionError ELSE Inf
             ELSE Fin(Rat(Distance * performance_score.d, performance_score.n))

---------------------------------------------------------------------------
(* Ranking, line 175 *)

\* the order sort_values(by="Time") puts two times in: numbers ascending, nan last
TimeBefore(x, y) ==
    CASE x.k = "nan" -> FALSE
      [] y.k = "nan" -> TRUE
      [] x.k = "inf" -> FALSE
      [] y.k = "inf" -> TRUE
      [] OTHER -> RLess(x, y)

IsSorted(rs) == \A j \in 1..(Len(rs) - 1) : ~TimeBefore(rs[j + 1].Time, rs[j].Time)

Arrangements(n) == { p \in [1..n -> 1..n] : \A a, b \in 1..n : a # b => p[a] # p[b] }

Reorder(rs, p) == [j \in 1..Len(rs) |-> rs[p[j]]]

\* sort_values with the default kind="quicksort", which is not a stable sort:
\* every ascending arrangement of the rows is a possible result
SortValues(rs) ==
    { Reorder(rs, p) : p \in { q \in Arrangements(Len(rs)) : IsSorted(Reorder(rs, q)) } }

\* the prize goes to the last row instead of the first
Winner_Last(results) == results[Len(results)]

\* line 177
Winner(results) == results[1]

---------------------------------------------------------------------------
(* Economics, lines 145-151 *)

RECURSIVE Unique(_)
\* pandas unique(): the distinct values in order of first appearance
Unique(s) ==
    IF s = <<>> THEN <<>>
    ELSE LET front == Unique(SubSeq(s, 1, Len(s) - 1))
             last == s[Len(s)]
         IN  IF \E j \in 1..Len(front) : front[j] = last THEN front
             ELSE Append(front, last)

TeamColumn(df) == [j \in 1..Len(df) |-> df[j].team]

\* one fee per car row instead of one per team
TeamsInRace_PerCar(df) == TeamColumn(df)

\* line 151
TeamsInRace(df) == Unique(TeamColumn(df))

\* the prize counted per car row instead of per team
PrizeOf_PerCar(df) == (Len(df) * FEE * 8) \div 10

\* line 146: len(unique) * FEE * 0.8
PrizeOf(df) == (Len(Unique(TeamColumn(df))) * FEE * 8) \div 10

\* a single car is let through
EnoughCars_OneIsEnough(df) == ~(Len(df) < 1)

\* line 141
EnoughCars(df) == ~(Len(df) < MinEntrants)

---------------------------------------------------------------------------
(* Ledger writes, lines 9-18 and 33-45 *)

\* what one execute_command call can do: run, fail in cur.execute (caught,
\* line 40), or fail to connect (snowflake_connection reports and calls st.stop)
WriteResults == {"ok", "exec_failed", "conn_failed"}

\* a budget is kept from going below zero
ApplyUpdate_Floor(b, team, delta) ==
    [b EXCEPT ![team] = IF @ + delta < 0 THEN 0 ELSE @ + delta]

\* UPDATE ... SET budget = budget + delta WHERE team_name = team
ApplyUpdate(b, team, delta) == [b EXCEPT ![team] = @ + delta]

BudgetAfter(b, team, delta, res) == IF res = "ok" THEN ApplyUpdate(b, team, delta) ELSE b

Event(op, team, amount, res) == [op |-> op, team |-> team, amount |-> amount, res |-> res]

\* the log entries of one execute_command call: the write, then st.error if it failed
WriteEvents(op, team, delta, res) ==
    IF res = "ok" THEN <<Event(op, team, delta, res)>>
    ELSE <<Event(op, team, delta, res), Event("st.error", team, 0, res)>>

\* any failed write stops the run
AfterWrite_StopOnAnyFailure(res, next) == IF res # "ok" THEN "Stopped" ELSE next

\* where the handler is after a write: st.stop ends the script run
AfterWrite(res, next) == IF res = "conn_failed" THEN "Stopped" ELSE next

---------------------------------------------------------------------------
(* State machine *)

Terminal == {"Settled", "Aborted", "Stopped", "Crashed"}

Init ==
    /\ budget = [t \in Teams |-> InitialBudget]
    /\ cars_df = <<>>
    /\ pc = "Idle"
    /\ PRIZE = 0
    /\ teams_in_race = <<>>
    /\ race_results = <<>>
    /\ results_df = <<>>
    /\ log = <<>>
    /\ startBudget = [t \in Teams |-> InitialBudget]
    /\ racesRun = 0
    /\ clean = TRUE
    /\ sumK = 0
    /\ entered = {}

\* lines 129-136: a car row is inserted and the snapshot reloaded (a failed
\* insert leaves the snapshot as it is)
AddCar ==
    /\ pc = "Idle"
    /\ Len(cars_df) < MaxCars
    /\ \E row \in Garage :
         /\ \A j \in 1..Len(cars_df) : cars_df[j] # row
         /\ cars_df' = Append(cars_df, row)
    /\ UNCHANGED <<budget, pc, PRIZE, teams_in_race, race_results, results_df,
                   log, startBudget, racesRun, clean, sumK, entered>>

\* lines 140-151: the button, the validation and the economics
StartRace ==
    /\ pc = "Idle"
    /\ racesRun < MaxRaces
    /\ racesRun' = racesRun + 1
    /\ startBudget' = budget
    /\ IF EnoughCars(cars_df)
       THEN /\ pc' = "Validated"
            /\ PRIZE' = PrizeOf(cars_df)
            /\ teams_in_race' = TeamsInRace(cars_df)
            /\ log' = <<>>
       ELSE /\ pc' = "Aborted"
            /\ log' = <<Event("st.warning", "-", 0, "InsufficientEntrants")>>
            /\ UNCHANGED <<PRIZE, teams_in_race>>
    /\ UNCHANGED <<budget, cars_df, race_results, results_df, clean, sumK, entered>>

Debits(l) == SelectSeq(l, LAMBDA e : e.op = "debit")

\* the teams with at least one row in the snapshot
RaceTeams == {cars_df[j].team : j \in 1..Len(cars_df)}

\* the fee loop is left after its first iteration
FeeLoopLength_First(teams) == 1

\* the fee loop is over after this many iterations
FeeLoopLength(teams) == Len(teams)

\* lines 152-154: one iteration of the fee loop, the write ending in one of
\* the given ways
DebitFee(results) ==
    /\ pc = "Validated"
    /\ LET i == Len(Debits(log)) + 1
           team == teams_in_race[i]
       IN  \E res \in results :
             /\ budget' = BudgetAfter(budget, team, -FEE, res)
             /\ log' = log \o WriteEvents("debit", team, -FEE, res)
             /\ pc' = AfterWrite(res, IF i >= FeeLoopLength(teams_in_race)
                                      THEN "FeesCollected" ELSE "Validated")
             /\ clean' = (clean /\ res = "ok")
             /\ sumK' = IF clean' THEN sumK ELSE 0
             /\ entered' = IF clean' THEN entered ELSE {}
    /\ UNCHANGED <<cars_df, PRIZE, teams_in_race, race_results, results_df,
                   startBudget, racesRun>>

\* lines 159-172: one iteration of the simulation loop
Simulate ==
    /\ pc = "FeesCollected"
    /\ LET j == Len(race_results) + 1
           car == cars_df[j]
       IN  \E draw \in LuckDraws(car), build \in Builds :
             LET t == time_taken(car, draw, build)
             IN  IF t = ZeroDivisionError
                 THEN /\ pc' = "Crashed"
                      /\ log' = Append(log, Event("exception", car.team, 0, "ZeroDivisionError"))
                      /\ clean' = FALSE
                      /\ sumK' = 0
                      /\ entered' = {}
                      /\ UNCHANGED race_results
                 ELSE /\ race_results' = Append(race_results,
                                                [Team |-> car.team, Car |-> j, Time |-> t])
                      /\ log' = Append(log, Event("sim", car.team, 0, "ok"))
                      /\ pc' = IF j = Len(cars_df) THEN "Simulated" ELSE "FeesCollected"
                      /\ UNCHANGED <<clean, sumK, entered>>
    /\ UNCHANGED <<budget, cars_df, PRIZE, teams_in_race, results_df, startBudget, racesRun>>

\* lines 175-182
Rank ==
    /\ pc = "Simulated"
    /\ results_df' \in SortValues(race_results)
    /\ pc' = "Ranked"
    /\ UNCHANGED <<budget, cars_df, PRIZE, teams_in_race, race_results, log,
                   startBudget, racesRun, clean, sumK, entered>>

\* lines 184-185, the write ending in one of the given ways
Settle(results) ==
    /\ pc = "Ranked"
    /\ LET winner == Winner(results_df)
       IN  \E res \in results :
             /\ budget' = BudgetAfter(budget, winner.Team, PRIZE, res)
             /\ log' = log \o WriteEvents("credit", winner.Team, PRIZE, res)
             /\ pc' = AfterWrite(res, "Settled")
             /\ clean' = (clean /\ res = "ok")
             /\ sumK' = IF clean' THEN sumK + Cardinality(RaceTeams) ELSE 0
             /\ entered' = IF clean' THEN entered \cup RaceTeams ELSE {}
    /\ UNCHANGED <<cars_df, PRIZE, teams_in_race, race_results, results_df,
                   startBudget, racesRun>>

\* lines 187-188, or the end of the script run: the page waits for the next click
Rerun ==
    /\ pc \in Terminal
    /\ pc' = "Idle"
    /\ PRIZE' = 0
    /\ teams_in_race' = <<>>
    /\ race_results' = <<>>
    /\ results_df' = <<>>
    /\ log' = <<>>
    /\ startBudget' = budget
    /\ UNCHANGED <<budget, cars_df, racesRun, clean, sumK, entered>>

\* One invocation of the Start Race handler over any snapshot: every write can
\* end in every way, and the invocation is followed to where it ends.
Next ==
    \/ AddCar
    \/ StartRace
    \/ DebitFee(WriteResults)
    \/ Simulate
    \/ Rank
    \/ Settle(WriteResults)

Spec == Init /\ [][Next]_vars

\* A season: up to MaxRaces invocations, one after the other, against a ledger
\* whose writes all succeed.
SeasonNext ==
    \/ AddCar
    \/ StartRace
    \/ DebitFee({"ok"})
    \/ Simulate
    \/ Rank
    \/ Settle({"ok"})
    \/ Rerun

Season == Init /\ [][SeasonNext]_vars

---------------------------------------------------------------------------
(* Properties *)

Writes(l) == SelectSeq(l, LAMBDA e : e.op \in {"debit", "credit"})

DebitCount(t) == Len(SelectSeq(log, LAMBDA e : e.op = "debit" /\ e.team = t))

RECURSIVE SumAmounts(_)
SumAmounts(l) == IF l = <<>> THEN 0 ELSE l[1].amount + SumAmounts(Tail(l))

\* the deltas of the writes of the current race that were applied to team t
Applied(t) ==
    SumAmounts(SelectSeq(log, LAMBDA e : e.op \in {"debit", "credit"} /\ e.res = "ok" /\ e.team = t))

AppliedCredit(t) ==
    SumAmounts(SelectSeq(log, LAMBDA e : e.op = "credit" /\ e.res = "ok" /\ e.team = t))

AppliedFees == -SumAmounts(SelectSeq(log, LAMBDA e : e.op = "debit" /\ e.res = "ok"))
IssuedFees == -SumAmounts(Debits(log))
OkDebits == Len(SelectSeq(log, LAMBDA e : e.op = "debit" /\ e.res = "ok"))

RECURSIVE SumOver(_, _)
SumOver(S, f) == IF S = {} THEN 0
                 ELSE LET x == CHOOSE y \in S : TRUE IN f[x] + SumOver(S \ {x}, f)

k == Cardinality(RaceTeams)

Started == pc \notin {"Idle", "Aborted"}
FeePhaseOver == pc \in {"FeesCollected", "Simulated", "Ranked", "Settled", "Crashed"}

\* C1: started with fewer than 2 rows, the race is Aborted with the
\* InsufficientEntrants warning, no ledger write is issued and every budget is
\* what it was.
C1_AbortWithoutWrites ==
    (pc # "Idle" /\ Len(cars_df) < 2) =>
        /\ pc = "Aborted"
        /\ log = <<Event("st.warning", "-", 0, "InsufficientEntrants")>>
        /\ Writes(log) = <<>>
        /\ budget = startBudget

C1_Witness == pc = "Aborted" /\ Len(cars_df) = 1 /\ racesRun = 1

\* C2 as stated: in a race with at least 2 entrants that has run to its end,
\* every team with an entrant has had the fee taken from its budget exactly
\* once.
C2_Original ==
    (pc = "Settled" /\ Len(cars_df) >= 2) =>
        \A t \in RaceTeams : DebitCount(t) = 1 /\ Applied(t) - AppliedCredit(t) = -FEE

\* C2 amended: fee debits are issued one per distinct team with an entrant,
\* each of the fee, never two for one team and none for a team without an
\* entrant, however many cars a team entered; once the fee loop is over every
\* such team has exactly one; a run stopped by a connection failure in the fee
\* loop has debited only the teams up to the failing one.
C2_OneDebitPerTeam ==
    LET d == Debits(log)
        order == Unique(TeamColumn(cars_df))
    IN  /\ \A i, j \in 1..Len(d) : i # j => d[i].team # d[j].team
        /\ \A j \in 1..Len(d) :
               /\ d[j].team \in RaceTeams
               /\ d[j].amount = -FEE
               /\ d[j].team = order[j]
        /\ FeePhaseOver => {d[j].team : j \in 1..Len(d)} = RaceTeams
        /\ pc \in {"Validated", "FeesCollected", "Simulated", "Ranked"} =>
               \A t \in Teams :
                   budget[t] = startBudget[t] -
                       (IF \E j \in 1..Len(d) : d[j].team = t /\ d[j].res = "ok"
                        THEN FEE ELSE 0)

C2_Witness ==
    /\ pc = "FeesCollected"
    /\ Len(cars_df) = 3 /\ k = 2
    /\ \A t \in RaceTeams : DebitCount(t) = 1 /\ budget[t] = startBudget[t] - FEE

\* C3 as stated: in a race that passed validation and has run to its end the
\* prize is 0.8 * fee * k and the fee debits applied to the budgets total
\* fee * k.
C3_Original == pc = "Settled" => (10 * PRIZE = 8 * FEE * k /\ AppliedFees = FEE * k)

\* C3 amended: in every race that passed validation the prize is
\* 0.8 * fee * k; the fee debits issued total fee * k once the fee loop is over,
\* and those applied total fee times the number of debits that succeeded, which
\* is fee * k when every debit succeeded.
C3_PrizeAndFees ==
    Started =>
        /\ 10 * PRIZE = 8 * FEE * k
        /\ FeePhaseOver => IssuedFees = FEE * k
        /\ AppliedFees = FEE * OkDebits
        /\ (FeePhaseOver /\ OkDebits = Len(Debits(log))) => AppliedFees = FEE * k
        /\ pc \in {"Validated", "FeesCollected", "Simulated", "Ranked"} =>
               SumOver(Teams, startBudget) - SumOver(Teams, budget) = AppliedFees

C3_Witness ==
    /\ pc = "FeesCollected"
    /\ Len(cars_df) = 3 /\ k = 2 /\ PRIZE = 1600
    /\ AppliedFees = 2000

Credits(l) == SelectSeq(l, LAMBDA e : e.op = "credit")

\* C4: in a Settled race exactly one prize credit was issued, of the prize
\* pool, to the team of the entrant ranked first, whose time no other entrant
\* beats; no other team's budget went up.
C4_OnePrizeToFirst ==
    pc = "Settled" =>
        /\ Len(Credits(log)) = 1
        /\ Credits(log)[1].amount = PRIZE
        /\ Credits(log)[1].team = results_df[1].Team
        /\ \A j \in 1..Len(race_results) :
               ~TimeBefore(race_results[j].Time, results_df[1].Time)
        /\ \A t \in Teams : t # results_df[1].Team => budget[t] <= startBudget[t]

C4_Witness ==
    /\ pc = "Settled"
    /\ Len(results_df) = 3
    /\ results_df[1].Team = results_df[2].Team
    /\ results_df[3].Team # results_df[1].Team
    /\ budget[results_df[1].Team] = startBudget[results_df[1].Team] - FEE + PRIZE

\* C5: the ranked list holds every entrant once, ascending by time, and
\* entrants of equal time are in their input order.
C5_StableRanking ==
    pc \in {"Ranked", "Settled"} =>
        /\ Len(results_df) = Len(cars_df)
        /\ \A c \in 1..Len(cars_df) :
               Cardinality({j \in 1..Len(results_df) : results_df[j].Car = c}) = 1
        /\ IsSorted(results_df)
        /\ \A a, b \in 1..Len(results_df) :
               (a < b /\ ~TimeBefore(results_df[a].Time, results_df[b].Time))
                   => results_df[a].Car < results_df[b].Car

\* C6: every time that enters the results is a positive number and belongs to
\* an entrant with positive horsepower and weight, and the simulation does not
\* crash.
C6_PositiveTimes ==
    /\ pc # "Crashed"
    /\ \A j \in 1..Len(race_results) :
           /\ race_results[j].Time.k = "fin"
           /\ race_results[j].Time.n > 0
           /\ ValidCar(cars_df[race_results[j].Car])

Failed(e) == e.op \in {"debit", "credit"} /\ e.res # "ok"
AnyWriteFailed == \E j \in 1..Len(log) : Failed(log[j])
Sims(l) == SelectSeq(l, LAMBDA e : e.op = "sim")

C8_FeesBeforeSimulation ==
    LET debits == {j \in 1..Len(log) : log[j].op = "debit"}
        sims == {j \in 1..Len(log) : log[j].op = "sim"}
        credits == {j \in 1..Len(log) : log[j].op = "credit"}
    IN  /\ \A i \in sims \cup credits : \A j \in debits : j < i
        /\ \A i \in credits : \A j \in sims : j < i
        /\ sims \cup credits # {} => {log[j].team : j \in debits} = RaceTeams
        /\ pc = "Settled" =>
               /\ \A i \in credits : \E j \in debits : log[j].team = log[i].team
               /\ Cardinality(sims) = Len(cars_df)

C8_Witness ==
    /\ pc = "Settled"
    /\ ~AnyWriteFailed
    /\ \E t \in RaceTeams : budget[t] = startBudget[t] - FEE + PRIZE
    /\ \E t \in RaceTeams : budget[t] = startBudget[t] - FEE

PhaseNext(p) ==
    CASE p = "Idle" -> {"Idle", "Validated", "Aborted"}
      [] p = "Validated" -> {"Validated", "FeesCollected"}
      [] p = "FeesCollected" -> {"FeesCollected", "Simulated"}
      [] p = "Simulated" -> {"Ranked"}
      [] p = "Ranked" -> {"Settled"}
      [] p \in {"Settled", "Aborted"} -> {"Idle"}
      [] OTHER -> {}

\* C9: every step of an invocation moves along Idle, Validated,
\* FeesCollected, Simulated, Ranked, Settled, or from Idle to Aborted; the
\* invocation ends nowhere but in Settled or Aborted, and no budget changes
\* after it has ended.
C9_PhaseOrder ==
    [][/\ pc' \in PhaseNext(pc)
       /\ pc \in {"Settled", "Aborted"} => budget' = budget]_vars

\* C10: after races that were all settled with every write applied, a team
\* that entered none of them has its initial budget and the budgets together
\* have dropped by 0.2 * fee * k for each race; in each race the winner's
\* budget changed by prize - fee and every other participant's by -fee; a
\* budget may be negative.
C10_LedgerBalance ==
    (clean /\ pc \in {"Idle", "Settled", "Aborted"}) =>
        /\ \A t \in Teams \ entered : budget[t] = InitialBudget
        /\ 5 * (Cardinality(Teams) * InitialBudget - SumOver(Teams, budget)) = FEE * sumK
        /\ pc = "Settled" =>
               \A t \in Teams :
                   budget[t] - startBudget[t] =
                       IF t = results_df[1].Team THEN PRIZE - FEE
                       ELSE IF t \in RaceTeams THEN -FEE
                       ELSE 0

C10_Witness ==
    /\ clean /\ pc = "Settled" /\ racesRun = 2 /\ sumK >= 3
    /\ \E t \in Teams : budget[t] < 0
    /\ \E t \in Teams : t \notin entered

====
